---- MODULE Spec2Model ----
(***************************************************************************)
(* Model of the SD-card flashing appliance of src/src/main.rs: the         *)
(* orchestrator loop of main, the button monitor task, the two tokio       *)
(* watch channels (Status Cell, Button Latch), the device scanner and the  *)
(* chunked copy / read-back closure copy_func (Spec); the LED driver task  *)
(* run against the sends of the orchestrator's arms (SpecLed); and the     *)
(* device scanner applied to any small registry (SpecScan).                *)
(*                                                                         *)
(* Sizes are scaled down: a sector is SECTOR_BYTES bytes, the discovery    *)
(* threshold is MIN_SIZE_BYTES and the copy buffer is BUFFER_SIZE bytes.   *)
(*                                                                         *)
(* One arm of the orchestrator's match is one step, except the Flashing    *)
(* arm, which is one step per loop iteration of copy_func so that the      *)
(* button monitor runs while it copies.  Inside an arm the only shared     *)
(* accesses are to the Button Latch version: an edge published between     *)
(* has_changed and mark_unchanged, or between a send and the               *)
(* mark_unchanged after it, leaves the same state as one published just    *)
(* before the arm, so taking the arm as one step loses no behaviour.       *)
(***************************************************************************)
EXTENDS Integers, Sequences, FiniteSets, TLC

\* ---------------------------------------------------------------- bounds
MaxSrc == 3          \* longest source image, in bytes
MaxSectors == 2      \* largest sector count a card reports
MaxPresses == 2      \* button edges published in one behaviour
BUFFER_SIZE == 2     \* main.rs:249, scaled (128 MiB in the source)
SECTOR_BYTES == 2    \* main.rs:388, scaled (512 in the source)
MIN_SIZE_BYTES == 4  \* main.rs:195, scaled (128 * 10^9 in the source)
MaxEntries == 2      \* most entries of /sys/block in one scan
U64_MODULUS == 16    \* main.rs:388, scaled (u64: 2^64 in the source)

Byte == {0, 1}
\* Option values: None, or Some(x) as the one-element sequence <<x>>.
None == <<>>
Some(x) == <<x>>

Min(a, b) == IF a < b THEN a ELSE b

\* ------------------------------------------------------- SystemState enum
SystemState ==
    {"Initializing", "NoSdCard", "SdCardFound", "Flashing",
     "FlashingSuceeded", "FlashingFailed"}

VARIABLES
    \* environment
    src,            \* bytes of disk_image.img
    sysfs,          \* /sys/block/sda/size: None or Some(sector count)
    dest,           \* bytes stored on the card behind /dev/sda
    button_low,     \* level of the button line (low = pressed)
    \* watch channels
    status,         \* value held by the Status Cell
    button_version, \* version of the Button Latch (bumped by send_replace)
    button_seen,    \* version button_receiver has marked as seen
    \* button monitor task
    last_state,
    \* orchestrator
    pc,             \* "idle" | "write" | "verify" | "exited"
    device_path,    \* Option<PathBuf>
    src_pos,        \* offset of the re-opened source handle
    src_avail,      \* length of the re-opened source file
    dest_pos,       \* offset shared by the writer and the verify reader
    read_bytes,
    hashes,         \* Vec of the values returned by Hash::hash
    hashes_next,    \* how many entries hashes.into_iter() has yielded
    bytes_remaining,
    \* history variables (observers only, never read by the program)
    flash_done,     \* the last orchestrator step ended a Flashing handler
    written,        \* bytes handed to write_all in this attempt
    wlens,          \* lengths of the chunks of the write phase
    readback,       \* bytes the destination returned in the verify phase
    rlens,          \* lengths the reads of the verify phase returned
    corrupted,      \* the card altered a stored byte during this attempt
    last_io,        \* error met by the last orchestrator step, or "none"
    edge_since_found, \* an edge was published after the SdCardFound clear
    unacked,        \* edges published since the last mark_unchanged
    consumed,       \* edges the last button reaction acknowledged, if any
    edge_in_flash,  \* an edge was published while copy_func was running
    short_read,     \* a verify read returned less than it could have
    since_flash,    \* "fresh" | "flashed" | "nosd" | "found"
    cycle,          \* how far the Status Cell has followed ExpectedCycle
    \* LED driver task (LedDriver::update_loop)
    led_state,      \* the LedState the driver shows
    flash_state,    \* the flash phase
    red,            \* level of the red LED's pin: "low" (lit) | "high"
    yellow,         \* level of the yellow (green) LED's pin
    led_changed,    \* the driver's receiver has not seen the latest send
    led_read,       \* history: the last SystemState the driver read, if any
    rendered,       \* history: the driver has completed a render
    led_last,       \* history: the driver's last step: "none", "tick",
                    \* "same" (read its own pattern) or "new"
    sending,        \* sends of the running orchestrator arm still to come
    \* device scanner run on a registry of its own
    scan_reg,       \* entries of /sys/block, in enumeration order
    scan_min,       \* the min_size_bytes the scan is called with
    scan_pc,        \* "ready" | "returned" | "panicked"
    scan_out        \* the list the scan returned

progVars == <<status, button_version, button_seen, last_state, pc,
              device_path, src_pos, src_avail, dest_pos, read_bytes, hashes,
              hashes_next, bytes_remaining>>
envVars == <<src, sysfs, dest, button_low>>
histVars == <<flash_done, written, wlens, readback, rlens, corrupted, last_io,
              edge_since_found, unacked, consumed, edge_in_flash, short_read,
              since_flash, cycle>>
ledVars == <<led_state, flash_state, red, yellow, led_changed, led_read,
             rendered, led_last, sending>>
\* the orchestrator's variables other than the Status Cell
orchRest == <<button_version, button_seen, last_state, pc, device_path,
              src_pos, src_avail, dest_pos, read_bytes, hashes, hashes_next,
              bytes_remaining>>
scanVars == <<scan_reg, scan_min, scan_pc, scan_out>>
vars == <<envVars, progVars, histVars, ledVars, scanVars>>

\* ------------------------------------------------------------ paths
\* A path is <<directory prefix, entry name>>.
SysBlock == "/sys/block/"
Dev == "/dev/"

\* str::replace(from, to) on the directory prefix of a path.
Replace(path, from, to) == IF path[1] = from THEN <<to, path[2]>> ELSE path

\* An entry of /sys/block: its name and its size attribute, which is
\* "missing", "garbage" (text that is no u64) or "num" with a sector count.
Entry(name, kind, size) == [name |-> name, kind |-> kind, size |-> size]

\* The entries of /sys/block in enumeration order (one card slot, "sda").
Registry ==
    IF sysfs = None THEN <<>> ELSE <<Entry("sda", "num", sysfs[1])>>

\* ---------------------------------------------------------- device scanner
\* A product computed without regard to the width of u64.
SizeBytes_Exact(size_blocks) == size_blocks * SECTOR_BYTES

\* `size_blocks * 512` on u64 (line 388) where the build does not check
\* for overflow: the product wraps.
SizeBytes(size_blocks) == (size_blocks * SECTOR_BYTES) % U64_MODULUS

\* The same product overflows u64; a build with overflow checks panics.
Overflows(size_blocks) == size_blocks * SECTOR_BYTES >= U64_MODULUS

\* get_block_devices_with_size (lines 378-406): the entries whose size
\* attribute exists and parses and whose size in bytes reaches
\* min_size_bytes, as /sys/block paths in enumeration order.
RECURSIVE FilterDevices(_, _)
FilterDevices(reg, min_size_bytes) ==
    IF reg = <<>> THEN <<>>
    ELSE LET entry == Head(reg)
             rest == FilterDevices(Tail(reg), min_size_bytes)
         IN  IF entry.kind # "num" THEN rest
             ELSE IF SizeBytes(entry.size) < min_size_bytes THEN rest
             ELSE <<(<<SysBlock, entry.name>>)>> \o rest

get_block_devices_with_size(min_size_bytes) ==
    FilterDevices(Registry, min_size_bytes)

\* block_device_valid: the size attribute of the device exists and is > 0.
block_device_valid(path) ==
    LET p == Replace(path, Dev, SysBlock)
    IN  \E i \in 1..Len(Registry) :
            /\ p = <<SysBlock, Registry[i].name>>
            /\ Registry[i].kind = "num"
            /\ Registry[i].size > 0

\* devices.get(0) mapped to its /dev path (lines 204-207).
FirstDevice(devices) ==
    IF devices = <<>> THEN None ELSE Replace(devices[1], SysBlock, Dev)

\* bytes the card behind /dev/sda can hold
Capacity(sectors) ==
    IF sectors = None THEN 0 ELSE sectors[1] * SECTOR_BYTES

\* ----------------------------------------------------------- watch channel
\* Receiver::has_changed: the receiver has not seen the current version.
has_changed(seen, version) == seen # version

\* A mark_unchanged that leaves the receiver's version as it was.
mark_unchanged_Noop(seen, version) == seen

\* Receiver::mark_unchanged: the receiver adopts the current version.
mark_unchanged(seen, version) == version

\* ------------------------------------------------------ history bookkeeping
ExpectedCycle ==
    <<"Initializing", "NoSdCard", "SdCardFound", "Flashing",
      "FlashingSuceeded", "NoSdCard">>

\* cycle is the prefix of ExpectedCycle the Status Cell has followed;
\* CycleOff once a card became invalid, a copy failed or the cycle was
\* completed and left; CycleBad if the cell left the cycle otherwise.
CycleOff == <<>>
CycleBad == <<"other">>

CycleStep(c, v, hyp) ==
    IF c \in {CycleOff, CycleBad} THEN c
    ELSE IF v = ExpectedCycle[Len(c)] THEN c
    ELSE IF c = ExpectedCycle THEN CycleOff
    ELSE IF ~hyp THEN CycleOff
    ELSE IF v = ExpectedCycle[Len(c) + 1] THEN Append(c, v)
    ELSE CycleBad

RECURSIVE CycleAfter(_, _, _)
CycleAfter(c, pubs, hyp) ==
    IF pubs = <<>> THEN c
    ELSE CycleAfter(CycleStep(c, Head(pubs), hyp), Tail(pubs), hyp)

RECURSIVE SinceAfter(_, _)
SinceAfter(sf, pubs) ==
    IF pubs = <<>> THEN sf
    ELSE SinceAfter(CASE sf = "flashed" /\ Head(pubs) = "NoSdCard" -> "nosd"
                      [] sf = "nosd" /\ Head(pubs) = "SdCardFound" -> "found"
                      [] OTHER -> sf,
                    Tail(pubs))

Last(s) == s[Len(s)]

\* ------------------------------------------------------------------- Init
\* The image of n bytes: 1, 0, 1, ...
Image(n) == [i \in 1..n |-> i % 2]

\* The program after construction, whatever /sys/block the scanner of
\* SpecScan is given.
InitProgram ==
    /\ src \in {Image(n) : n \in 0..MaxSrc}
    /\ sysfs = None
    /\ dest = <<>>
    /\ button_low \in BOOLEAN
    /\ status = "Initializing"
    /\ button_version = 0
    /\ button_seen = 0
    /\ last_state = button_low
    /\ pc = "idle"
    /\ device_path = None
    /\ src_pos = 0
    /\ src_avail = 0
    /\ dest_pos = 0
    /\ read_bytes = 0
    /\ hashes = <<>>
    /\ hashes_next = 0
    /\ bytes_remaining = 0
    /\ flash_done = FALSE
    /\ written = <<>>
    /\ wlens = <<>>
    /\ readback = <<>>
    /\ rlens = <<>>
    /\ corrupted = FALSE
    /\ last_io = "none"
    /\ edge_since_found = FALSE
    /\ unacked = 0
    /\ consumed = None
    /\ edge_in_flash = FALSE
    /\ short_read = FALSE
    /\ since_flash = "fresh"
    /\ cycle = <<"Initializing">>
    /\ led_state = "SolidBoth"
    /\ flash_state = FALSE
    /\ red = "unset"
    /\ yellow = "unset"
    /\ led_changed = FALSE
    /\ led_read = None
    /\ rendered = FALSE
    /\ led_last = "none"
    /\ sending = <<>>
    /\ scan_pc = "ready"
    /\ scan_out = <<>>

Init ==
    /\ InitProgram
    /\ scan_reg = <<>>
    /\ scan_min = MIN_SIZE_BYTES

\* source_bytes (lines 163-166): the length of the image at startup.
source_bytes == Len(src)

\* ------------------------------------------------------------ environment
\* A card is inserted, removed or swapped between two orchestrator steps; a
\* new card holds arbitrary (here: uniform) old content.
SetCard ==
    /\ pc = "idle"
    /\ \E s \in ({None} \cup {Some(n) : n \in 0..MaxSectors}) \ {sysfs},
          fill \in Byte :
        /\ sysfs' = s
        /\ dest' = [i \in 1..Capacity(s) |-> fill]
    /\ UNCHANGED <<src, button_low, progVars>>
    /\ UNCHANGED histVars
    /\ UNCHANGED <<ledVars, scanVars>>

\* The operator presses or releases the button.
ButtonToggle ==
    /\ button_low \/ button_version < MaxPresses
    /\ button_low' = ~button_low
    /\ UNCHANGED <<src, sysfs, dest, progVars, histVars>>
    /\ UNCHANGED <<ledVars, scanVars>>

\* ---------------------------------------------------------- button monitor
\* A monitor that publishes whenever the sample reads pressed.
EdgeDetected_Level(last, current) == current

\* `[last_state, current_state] == [false, true]` (line 178).
EdgeDetected(last, current) == (last = FALSE /\ current = TRUE)

\* One iteration of the polling loop (lines 174-184).
ButtonPoll ==
    LET current_state == button_low
        edge == EdgeDetected(last_state, current_state)
    IN  /\ pc # "exited"
        /\ button_version' = IF edge THEN button_version + 1
                                     ELSE button_version
        /\ last_state' = current_state
        /\ unacked' = IF edge THEN unacked + 1 ELSE unacked
        /\ edge_since_found' = (edge_since_found \/ edge)
        /\ edge_in_flash' =
               (edge_in_flash \/ (edge /\ pc \in {"write", "verify"}))
        /\ UNCHANGED <<envVars, status, button_seen, pc, device_path,
                       src_pos, src_avail,
                       dest_pos, read_bytes, hashes, hashes_next,
                       bytes_remaining>>
        /\ UNCHANGED <<flash_done, written, wlens, readback, rlens,
                       corrupted, last_io,
                       consumed, short_read, since_flash, cycle>>
        /\ UNCHANGED <<ledVars, scanVars>>

\* ------------------------------------------------------------ orchestrator
\* History kept by every orchestrator step: the values it published in
\* order, whether the card was valid and the copy clean (hyp), whether it
\* called mark_unchanged, whether it reacted to the button, and the error
\* it met.
StepHist(sf, pubs, hyp, acked, reacted, io) ==
    /\ cycle' = CycleAfter(cycle, pubs, hyp)
    /\ since_flash' = SinceAfter(sf, pubs)
    /\ unacked' = IF acked THEN 0 ELSE unacked
    /\ consumed' = IF reacted THEN Some(unacked) ELSE consumed
    /\ last_io' = io

TickHist(pubs, hyp, acked, reacted, io) ==
    StepHist(since_flash, pubs, hyp, acked, reacted, io)

\* The value the Status Cell holds after the sends of one step.
Final(pubs) == IF pubs = <<>> THEN status ELSE Last(pubs)

\* The locals of the Flashing arm do not outlive it.
NoAttempt ==
    /\ src_pos' = 0
    /\ src_avail' = 0
    /\ dest_pos' = 0
    /\ read_bytes' = 0
    /\ hashes' = <<>>
    /\ hashes_next' = 0
    /\ bytes_remaining' = 0

ForgetAttempt ==
    /\ flash_done' = FALSE
    /\ written' = <<>>
    /\ wlens' = <<>>
    /\ readback' = <<>>
    /\ rlens' = <<>>
    /\ corrupted' = FALSE
    /\ edge_in_flash' = FALSE
    /\ short_read' = FALSE

\* SystemState::Initializing arm (lines 339-341).
InitializingPubs == <<"NoSdCard">>

TickInitializing ==
    /\ pc = "idle"
    /\ status = "Initializing"
    /\ status' = Final(InitializingPubs)
    /\ TickHist(InitializingPubs, TRUE, FALSE, FALSE, "none")
    /\ ForgetAttempt
    /\ UNCHANGED <<envVars, button_version, button_seen, last_state, pc,
                   device_path, src_pos, src_avail,
                   dest_pos, read_bytes, hashes,
                   hashes_next, bytes_remaining>>
    /\ UNCHANGED edge_since_found
    /\ UNCHANGED <<ledVars, scanVars>>

\* An SdCardFound transition that keeps a stale edge.
AckOnFound_Missing(seen, version) == seen

\* mark_unchanged on the NoSdCard -> SdCardFound transition (line 214).
AckOnFound(seen, version) == mark_unchanged(seen, version)

\* SystemState::NoSdCard arm (lines 194-216).  read_dir may fail, and then
\* the arm ends at `continue` with nothing changed.
TickNoSdCard ==
    /\ pc = "idle"
    /\ status = "NoSdCard"
    /\ \E scan_ok \in BOOLEAN :
        IF ~scan_ok
        THEN /\ UNCHANGED <<status, device_path, button_seen,
                            edge_since_found>>
             /\ TickHist(<<>>, TRUE, FALSE, FALSE, "scan")
        ELSE LET devices == get_block_devices_with_size(MIN_SIZE_BYTES)
                 found == FirstDevice(devices)
                 pubs == IF found = None THEN <<"NoSdCard">>
                                         ELSE <<"SdCardFound">>
             IN  /\ device_path' = found
                 /\ status' = Final(pubs)
                 /\ button_seen' =
                        IF found = None THEN button_seen
                        ELSE AckOnFound(button_seen, button_version)
                 /\ edge_since_found' =
                        IF found = None THEN edge_since_found ELSE FALSE
                 /\ TickHist(pubs, TRUE, found # None, FALSE, "none")
    /\ ForgetAttempt
    /\ UNCHANGED <<envVars, button_version, last_state, pc, src_pos, src_avail,
                   dest_pos, read_bytes, hashes, hashes_next,
                   bytes_remaining>>
    /\ UNCHANGED <<ledVars, scanVars>>

\* The sends of the SystemState::SdCardFound arm once a device is held
\* (lines 222-229): the validity check falls through to the button check.
FoundPubs(valid, pressed) ==
    (IF ~valid THEN <<"NoSdCard">> ELSE <<>>)
        \o (IF pressed THEN <<"Flashing">> ELSE <<>>)

\* SystemState::SdCardFound arm (lines 217-230).
TickSdCardFound ==
    /\ pc = "idle"
    /\ status = "SdCardFound"
    /\ IF device_path = None
       THEN /\ status' = "NoSdCard"
            /\ TickHist(<<"NoSdCard">>, FALSE, FALSE, FALSE, "none")
            /\ UNCHANGED button_seen
       ELSE LET valid == block_device_valid(device_path)
                pressed == has_changed(button_seen, button_version)
                pubs == FoundPubs(valid, pressed)
            IN  /\ status' = Final(pubs)
                /\ button_seen' =
                       IF pressed
                       THEN mark_unchanged(button_seen, button_version)
                       ELSE button_seen
                /\ TickHist(pubs, valid, pressed, pressed, "none")
    /\ ForgetAttempt
    /\ UNCHANGED <<envVars, button_version, last_state, pc, device_path,
                   src_pos, src_avail,
                   dest_pos, read_bytes, hashes, hashes_next,
                   bytes_remaining>>
    /\ UNCHANGED edge_since_found
    /\ UNCHANGED <<ledVars, scanVars>>

\* A terminal arm whose button press starts the copy again.
TerminalPubs_Retry(valid, pressed) ==
    (IF ~valid THEN <<"NoSdCard">> ELSE <<>>)
        \o (IF pressed THEN <<"Flashing">> ELSE <<>>)

\* The sends of the FlashingFailed | FlashingSuceeded arm (lines 329-337).
TerminalPubs(valid, pressed) ==
    (IF ~valid THEN <<"NoSdCard">> ELSE <<>>)
        \o (IF pressed THEN <<"NoSdCard">> ELSE <<>>)

\* SystemState::FlashingFailed | SystemState::FlashingSuceeded arm
\* (lines 328-338).
TickTerminal ==
    /\ pc = "idle"
    /\ status \in {"FlashingFailed", "FlashingSuceeded"}
    /\ LET valid == device_path # None /\ block_device_valid(device_path)
           pressed == has_changed(button_seen, button_version)
           pubs == TerminalPubs(valid, pressed)
       IN  /\ status' = Final(pubs)
           /\ button_seen' =
                  IF pressed
                  THEN mark_unchanged(button_seen, button_version)
                  ELSE button_seen
           /\ TickHist(pubs, valid, pressed, pressed, "none")
    /\ ForgetAttempt
    /\ UNCHANGED <<envVars, button_version, last_state, pc, device_path,
                   src_pos, src_avail,
                   dest_pos, read_bytes, hashes, hashes_next,
                   bytes_remaining>>
    /\ UNCHANGED edge_since_found
    /\ UNCHANGED <<ledVars, scanVars>>

\* ------------------------------------------------------- the Flashing arm
\* Hash::hash(&self, state) feeds the hasher and returns the unit value;
\* that return value is what copy_func stores and compares (lines 266, 292).
hash(copied_buffer) == "()"

\* The lengths the file behind source_path may have when the arm re-opens
\* it: the one measured at startup (lines 163-166), or less if the file
\* was cut since.
SourceLens == 0..source_bytes

\* The write loop is followed for at most this many chunks; it needs no
\* more than MaxSrc unless it spins on a source that was cut.
HashCap == MaxSrc + 2

\* The lengths one read call may return: 0 only at the end of the stream.
ReadLens(avail, want) ==
    IF Min(avail, want) = 0 THEN {0} ELSE 1..Min(avail, want)

\* Errors that come from the device or the file system.
EnvErrors == {"scan", "open_dest", "open_src", "read_src", "write_dest",
              "read_dest"}
\* Errors that copy_func raises itself.
CheckErrors == {"sub", "count", "hash"}

\* A Flashing arm that leaves without clearing the latch.
AckAfterFlash_Missing(seen, version) == seen

\* mark_unchanged at the end of the Flashing arm (line 326).
AckAfterFlash(seen, version) == mark_unchanged(seen, version)

\* A match on clone_result with its arms exchanged.
ResultPubs_Swapped(ok) ==
    IF ok THEN <<"FlashingFailed">> ELSE <<"FlashingSuceeded">>

\* match clone_result (lines 311-319), Err(file_opening_error) (321-324).
ResultPubs(ok) == IF ok THEN <<"FlashingSuceeded">> ELSE <<"FlashingFailed">>

\* The end of the arm: publish the outcome, clear the latch (lines 309-326).
EndFlash(ok, io) ==
    /\ status' = Final(ResultPubs(ok))
    /\ button_seen' = AckAfterFlash(button_seen, button_version)
    /\ pc' = "idle"
    /\ NoAttempt
    /\ flash_done' = TRUE
    /\ StepHist("flashed", ResultPubs(ok), ok, TRUE, FALSE, io)

\* Entry of the arm: the let-else on device_path, the open of the
\* destination, the re-open of the source and the two try_clone calls
\* (lines 232-256).  The `?` on File::open(source_path) and on try_clone
\* returns the error from main.
FlashOpen ==
    /\ pc = "idle"
    /\ status = "Flashing"
    /\ written' = <<>>
    /\ wlens' = <<>>
    /\ readback' = <<>>
    /\ rlens' = <<>>
    /\ corrupted' = FALSE
    /\ edge_in_flash' = FALSE
    /\ short_read' = FALSE
    /\ IF device_path = None
       THEN /\ status' = "FlashingFailed"
            /\ flash_done' = TRUE
            /\ StepHist("flashed", <<"FlashingFailed">>, FALSE, FALSE, FALSE,
                        "none")
            /\ UNCHANGED <<button_seen, pc, src_pos, src_avail,
                           dest_pos, read_bytes,
                           hashes, hashes_next, bytes_remaining>>
       ELSE \E outcome \in {"ok", "open_dest", "open_src"} :
              CASE outcome = "open_dest" ->
                     EndFlash(FALSE, "open_dest")
                [] outcome = "open_src" ->
                     /\ Capacity(sysfs) > 0
                     /\ pc' = "exited"
                     /\ flash_done' = FALSE
                     /\ StepHist("flashed", <<>>, TRUE, FALSE, FALSE, "open_src")
                     /\ UNCHANGED <<status, button_seen, src_pos, src_avail,
                                    dest_pos,
                                    read_bytes, hashes, hashes_next,
                                    bytes_remaining>>
                [] outcome = "ok" ->
                     /\ Capacity(sysfs) > 0
                     /\ pc' = "write"
                     /\ src_pos' = 0
                     /\ src_avail' \in SourceLens
                     /\ dest_pos' = 0
                     /\ read_bytes' = 0
                     /\ hashes' = <<>>
                     /\ hashes_next' = 0
                     /\ bytes_remaining' = 0
                     /\ flash_done' = FALSE
                     /\ StepHist("flashed", <<>>, TRUE, FALSE, FALSE, "none")
                     /\ UNCHANGED <<status, button_seen>>
    /\ UNCHANGED <<envVars, button_version, last_state, device_path>>
    /\ UNCHANGED edge_since_found
    /\ UNCHANGED <<ledVars, scanVars>>

\* dest after write_all(chunk) at offset pos: the bytes that fit are stored.
WriteAt(d, pos, chunk) ==
    [i \in 1..Len(d) |->
        IF i > pos /\ i <= pos + Len(chunk) THEN chunk[i - pos] ELSE d[i]]

\* A write loop that ends on the end of the source stream.
LoopBreaks_OnEof(read, total) == read = 0

\* `if read_bytes == source_bytes { break; }` (lines 260-262).
LoopBreaks(read, total) == total = source_bytes

\* One iteration of the write loop (lines 258-270); on `break`, the
\* set-up of the verify loop (lines 271-274).
WriteStep ==
    /\ pc = "write"
    /\ \E io_ok \in BOOLEAN,
          read \in ReadLens(src_avail - src_pos, BUFFER_SIZE),
          write_ok \in BOOLEAN :
        LET copied_buffer == SubSeq(src, src_pos + 1, src_pos + read)
            fits == dest_pos + read <= Len(dest)
        IN  IF ~io_ok
            THEN /\ EndFlash(FALSE, "read_src")
                 /\ UNCHANGED <<dest, written, wlens>>
            ELSE IF LoopBreaks(read, read_bytes)
            THEN /\ pc' = "verify"
                 /\ src_pos' = src_pos + read
                 /\ UNCHANGED src_avail
                 /\ bytes_remaining' = read_bytes
                 /\ hashes_next' = 0
                 /\ StepHist(since_flash, <<>>, TRUE, FALSE, FALSE, "none")
                 /\ UNCHANGED <<status, button_seen, dest_pos, read_bytes,
                                hashes, dest, written, wlens, flash_done>>
            ELSE IF ~(write_ok /\ fits)
            THEN /\ EndFlash(FALSE, "write_dest")
                 /\ dest' = IF write_ok
                            THEN WriteAt(dest, dest_pos, copied_buffer)
                            ELSE dest
                 /\ UNCHANGED <<written, wlens>>
            ELSE /\ Len(hashes) < HashCap
                 /\ src_pos' = src_pos + read
                 /\ UNCHANGED src_avail
                 /\ read_bytes' = read_bytes + read
                 /\ hashes' = Append(hashes, hash(copied_buffer))
                 /\ dest' = WriteAt(dest, dest_pos, copied_buffer)
                 /\ dest_pos' = dest_pos + read
                 /\ written' = written \o copied_buffer
                 /\ wlens' = Append(wlens, read)
                 /\ StepHist(since_flash, <<>>, TRUE, FALSE, FALSE, "none")
                 /\ UNCHANGED <<status, button_seen, pc, hashes_next,
                                bytes_remaining, flash_done>>
    /\ UNCHANGED <<src, sysfs, button_low, button_version, last_state,
                   device_path>>
    /\ UNCHANGED <<readback, rlens, corrupted, edge_since_found, edge_in_flash,
                   short_read>>
    /\ UNCHANGED <<ledVars, scanVars>>

\* One iteration of the verify loop (lines 275-306).  The reader wraps the
\* handle the writer used, so it reads on from the offset the writes left.
\* A read may also return no bytes before the end of the device (the case
\* line 283 reports).
VerifyStep ==
    /\ pc = "verify"
    /\ LET bytes_to_read == Min(BUFFER_SIZE, bytes_remaining)
       IN  IF bytes_to_read = 0
           THEN /\ EndFlash(TRUE, "none")
                /\ UNCHANGED <<readback, rlens, short_read>>
           ELSE \E io_ok \in BOOLEAN,
                   read \in ReadLens(Len(dest) - dest_pos, bytes_to_read)
                               \cup {0} :
                  LET copied_buffer ==
                          SubSeq(dest, dest_pos + 1, dest_pos + read)
                  IN  IF ~io_ok
                      THEN /\ EndFlash(FALSE, "read_dest")
                           /\ UNCHANGED <<readback, rlens, short_read>>
                      ELSE /\ readback' = readback \o copied_buffer
                           /\ rlens' = Append(rlens, read)
                           /\ short_read' =
                                  (short_read
                                   \/ read < Min(Len(dest) - dest_pos,
                                                 bytes_to_read))
                           /\ IF read > bytes_remaining
                              THEN EndFlash(FALSE, "sub")
                              ELSE IF hashes_next >= Len(hashes)
                              THEN EndFlash(FALSE, "count")
                              ELSE IF hash(copied_buffer)
                                        # hashes[hashes_next + 1]
                              THEN EndFlash(FALSE, "hash")
                              ELSE /\ bytes_remaining' =
                                          bytes_remaining - read
                                   /\ hashes_next' = hashes_next + 1
                                   /\ dest_pos' = dest_pos + read
                                   /\ StepHist(since_flash, <<>>, TRUE, FALSE,
                                               FALSE, "none")
                                   /\ UNCHANGED <<status, button_seen, pc,
                                                  src_pos, src_avail,
                                                  read_bytes,
                                                  hashes, flash_done>>
    /\ UNCHANGED <<envVars, button_version, last_state, device_path>>
    /\ UNCHANGED <<written, wlens, corrupted, edge_since_found, edge_in_flash>>
    /\ UNCHANGED <<ledVars, scanVars>>

\* The card silently alters one stored byte after the write phase.
Corrupt ==
    /\ pc = "verify"
    /\ ~corrupted
    /\ \E i \in 1..Len(dest) : dest' = [dest EXCEPT ![i] = 1 - @]
    /\ corrupted' = TRUE
    /\ UNCHANGED <<src, sysfs, button_low, progVars>>
    /\ UNCHANGED <<flash_done, written, wlens, readback, rlens, last_io,
                   edge_since_found, unacked, consumed, edge_in_flash,
                   short_read, since_flash, cycle>>
    /\ UNCHANGED <<ledVars, scanVars>>

\* ------------------------------------------------------------------- Next
Next ==
    \/ SetCard
    \/ ButtonToggle
    \/ ButtonPoll
    \/ Corrupt
    \/ TickInitializing
    \/ TickNoSdCard
    \/ TickSdCardFound
    \/ FlashOpen
    \/ WriteStep
    \/ VerifyStep
    \/ TickTerminal

Spec == Init /\ [][Next]_vars

\* ------------------------------------------------------------- LED driver
\* The LED driver task, run against the sends of the orchestrator's arms.
\* The pins keep the level into_output found ("unset") until the first
\* render; set_low lights a LED.
LedState ==
    {"Off", "SolidBoth", "FlashingGreen", "FlashingRed", "FlashingGreenRed",
     "SolidGreen", "SolidRed"}

\* impl Into<LedState> for SystemState (lines 54-65).
into(self) ==
    CASE self = "Initializing" -> "SolidBoth"
      [] self = "NoSdCard" -> "FlashingRed"
      [] self = "SdCardFound" -> "FlashingGreen"
      [] self = "Flashing" -> "FlashingGreenRed"
      [] self = "FlashingSuceeded" -> "SolidGreen"
      [] self = "FlashingFailed" -> "SolidRed"

\* The closure set_output (lines 95-101): the level the pin is driven to.
set_output(state) == IF state THEN "low" ELSE "high"

\* match (led_state, flash_state) (lines 117-146): the levels of both pins.
Render(ls, fs) ==
    CASE ls = "Off" ->
           [red |-> set_output(FALSE), yellow |-> set_output(FALSE)]
      [] ls = "SolidBoth" ->
           [red |-> set_output(TRUE), yellow |-> set_output(TRUE)]
      [] ls = "SolidRed" ->
           [red |-> set_output(TRUE), yellow |-> set_output(FALSE)]
      [] ls = "SolidGreen" ->
           [red |-> set_output(FALSE), yellow |-> set_output(TRUE)]
      [] ls = "FlashingGreenRed" ->
           [red |-> set_output(fs), yellow |-> set_output(~fs)]
      [] ls = "FlashingGreen" ->
           [red |-> set_output(FALSE), yellow |-> set_output(fs)]
      [] ls = "FlashingRed" ->
           [red |-> set_output(fs), yellow |-> set_output(FALSE)]

\* The render that ends every iteration of the driver's loop.
RenderStep ==
    /\ red' = Render(led_state', flash_state').red
    /\ yellow' = Render(led_state', flash_state').yellow
    /\ rendered' = TRUE

\* A driver that keeps the pattern it shows whatever it reads.
Adopt_Never(new_led_state, cur) == cur

\* `if new_led_state != led_state { led_state = new_led_state; .. }`
\* (lines 106-110): the pattern shown after the driver read a value.
Adopt(new_led_state, cur) ==
    IF new_led_state # cur THEN new_led_state ELSE cur

\* A driver that restarts the flash phase on every value it reads.
PhaseAfterRead_Reset(new_led_state, cur, fs) == FALSE

\* The flash phase after the driver read a value (lines 106-110).
PhaseAfterRead(new_led_state, cur, fs) ==
    IF new_led_state # cur THEN FALSE ELSE fs

\* select! branch `receiver.changed()` and the render (lines 104-111,
\* 117-146).
LedChanged ==
    /\ led_changed
    /\ LET new_led_state == into(status)
       IN  /\ led_state' = Adopt(new_led_state, led_state)
           /\ flash_state' =
                  PhaseAfterRead(new_led_state, led_state, flash_state)
    /\ led_changed' = FALSE
    /\ led_read' = Some(status)
    /\ led_last' = IF into(status) = led_state THEN "same" ELSE "new"
    /\ RenderStep
    /\ UNCHANGED <<envVars, progVars, histVars, scanVars, sending>>

\* select! branch `timer.tick()` and the render (lines 112-114, 117-146).
LedTick ==
    /\ flash_state' = ~flash_state
    /\ led_last' = "tick"
    /\ UNCHANGED <<led_state, led_changed, led_read>>
    /\ RenderStep
    /\ UNCHANGED <<envVars, progVars, histVars, scanVars, sending>>

\* The sequences of values one arm of the orchestrator's match may send,
\* by the state the arm runs in (lines 192-342).
ArmSends(st) ==
    CASE st = "Initializing" -> {InitializingPubs}
      [] st = "NoSdCard" -> {<<>>, <<"NoSdCard">>, <<"SdCardFound">>}
      [] st = "SdCardFound" ->
           {<<"NoSdCard">>}
               \cup {FoundPubs(v, p) : v \in BOOLEAN, p \in BOOLEAN}
      [] st = "Flashing" ->
           {<<"FlashingFailed">>} \cup {ResultPubs(ok) : ok \in BOOLEAN}
      [] OTHER -> {TerminalPubs(v, p) : v \in BOOLEAN, p \in BOOLEAN}

\* The orchestrator enters an arm; what the arm will send is fixed by what
\* it reads on the way.
ArmStart ==
    /\ sending = <<>>
    /\ \E pubs \in ArmSends(status) \ {<<>>} : sending' = pubs
    /\ UNCHANGED <<envVars, progVars, histVars, scanVars>>
    /\ UNCHANGED <<led_state, flash_state, red, yellow, led_changed,
                   led_read, rendered, led_last>>

\* A send that wakes no receiver.
Notified_Lost(changed) == changed

\* watch::Sender::send_replace bumps the version, so every receiver sees a
\* change whatever the value sent.
Notified(changed) == TRUE

\* One state_sender.send_replace(value) of the running arm.
Send ==
    /\ sending # <<>>
    /\ status' = Head(sending)
    /\ sending' = Tail(sending)
    /\ led_changed' = Notified(led_changed)
    /\ UNCHANGED <<envVars, orchRest, histVars, scanVars>>
    /\ UNCHANGED <<led_state, flash_state, red, yellow, led_read, rendered,
                   led_last>>

NextLed ==
    \/ ArmStart
    \/ Send
    \/ LedChanged
    \/ LedTick

SpecLed == Init /\ [][NextLed]_vars

\* select! polls its branches in random order, and a value the receiver
\* has not seen keeps `changed()` ready until the driver takes that
\* branch: a ready `changed()` is not passed over for ever.
SpecLedFair == SpecLed /\ WF_vars(LedChanged)

\* --------------------------------------------------- the scanner by itself
\* get_block_devices_with_size applied once to any registry of at most
\* MaxEntries entries and a threshold.
EntryNames == <<"sda", "sdb", "sdc", "sdd">>

SizeAttrs ==
    {Entry("", "missing", 0), Entry("", "garbage", 0)}
        \cup {Entry("", "num", n) : n \in 0..(U64_MODULUS - 1)}

Registries ==
    UNION {{[i \in 1..n |-> Entry(EntryNames[i], a[i].kind, a[i].size)] :
                a \in [1..n -> SizeAttrs]} : n \in 0..MaxEntries}

ScanMins == {0, MIN_SIZE_BYTES, U64_MODULUS - 1}

InitScan ==
    /\ InitProgram
    /\ src = <<>>
    /\ ~button_low
    /\ scan_reg \in Registries
    /\ scan_min \in ScanMins

\* One call of get_block_devices_with_size(scan_min).  Whether an
\* overflowing product wraps or panics is the build's choice
\* (overflow-checks).
Scan ==
    /\ scan_pc = "ready"
    /\ \E overflow_checks \in BOOLEAN :
        IF /\ overflow_checks
           /\ \E i \in 1..Len(scan_reg) :
                 scan_reg[i].kind = "num" /\ Overflows(scan_reg[i].size)
        THEN /\ scan_pc' = "panicked"
             /\ UNCHANGED scan_out
        ELSE /\ scan_pc' = "returned"
             /\ scan_out' = FilterDevices(scan_reg, scan_min)
    /\ UNCHANGED <<envVars, progVars, histVars, ledVars, scan_reg, scan_min>>

\* The orchestrator takes devices.get(0) (lines 204-207).
ScanAdopt ==
    /\ scan_pc = "returned"
    /\ device_path # FirstDevice(scan_out)
    /\ device_path' = FirstDevice(scan_out)
    /\ UNCHANGED <<envVars, status, button_version, button_seen, last_state,
                   pc, src_pos, src_avail,
                   dest_pos, read_bytes, hashes, hashes_next,
                   bytes_remaining, histVars, ledVars, scanVars>>

NextScan ==
    \/ Scan
    \/ ScanAdopt

SpecScan == InitScan /\ [][NextScan]_vars

\* ----------------------------------------------------------- observations
\* A step of the orchestrator: the card, the button line and the button
\* monitor are left alone, and no byte is altered behind its back.
OrchStep ==
    /\ UNCHANGED <<sysfs, button_low, last_state, button_version>>
    /\ ~(corrupted' /\ ~corrupted)

\* The held identity no longer passes block_device_valid.
HeldInvalid == device_path # None /\ ~block_device_valid(device_path)

Pending == has_changed(button_seen, button_version)

\* The orchestrator step that leaves the Flashing handler.
AttemptEnds == OrchStep /\ ~flash_done /\ flash_done'

\* C1: whenever an attempt has ended and the bytes the destination returned
\* in the verify phase differ from the bytes written in the write phase,
\* the orchestrator has published FlashingFailed (never FlashingSuceeded).
C1_CorruptionDetected ==
    (flash_done /\ readback # written) => status = "FlashingFailed"

\* C2: when an attempt ends on a destination that stored every write, was
\* never altered, reported no I/O error and answered every read in full
\* the closure returns Ok (FlashingSuceeded is published) and
\* the first source_bytes bytes of the destination are the source's bytes.
C2_RoundTrip ==
    [][(/\ AttemptEnds
        /\ ~corrupted'
        /\ ~short_read'
        /\ last_io' \notin EnvErrors)
       => /\ status' = "FlashingSuceeded"
          /\ SubSeq(dest', 1, source_bytes) = src]_vars

\* C3: an orchestrator tick that runs in SdCardFound, FlashingSuceeded or
\* FlashingFailed while the held device is invalid leaves NoSdCard in the
\* Status Cell, whether or not a button edge is pending.
C3_RemovalFirst ==
    [][(/\ OrchStep
        /\ pc = "idle"
        /\ status \in {"SdCardFound", "FlashingSuceeded", "FlashingFailed"}
        /\ HeldInvalid)
       => status' = "NoSdCard"]_vars

\* C4: whenever the Status Cell holds NoSdCard or Initializing, the
\* orchestrator holds no device identity.
C4_NoIdentity ==
    status \in {"NoSdCard", "Initializing"} => device_path = None

\* C10: every error of the scan, of opening the destination or the source,
\* and of the write and verify phases leaves the orchestrator loop running,
\* with NoSdCard in the Status Cell after a scan error and FlashingFailed
\* after any other.
C10_ErrorsAbsorbed ==
    last_io # "none"
        => /\ pc = "idle"
           /\ status = IF last_io = "scan" THEN "NoSdCard"
                                           ELSE "FlashingFailed"

\* C5: while every validity check passes and the copy returns Ok, the
\* Status Cell takes the values Initializing, NoSdCard, SdCardFound,
\* Flashing, FlashingSuceeded, NoSdCard in this order and no other value in
\* between; the first tick leaves Initializing, a scan that finds a device
\* yields SdCardFound, a pending edge yields Flashing, a clean copy yields
\* FlashingSuceeded and a further pending edge yields NoSdCard.
C5_EndToEndCycle ==
    /\ [](cycle # CycleBad)
    /\ [][OrchStep /\ pc = "idle" =>
            /\ status = "Initializing" => status' = "NoSdCard"
            /\ (/\ status = "NoSdCard"
                /\ last_io' # "scan"
                /\ get_block_devices_with_size(MIN_SIZE_BYTES) # <<>>)
               => status' = "SdCardFound"
            /\ (status = "SdCardFound" /\ ~HeldInvalid /\ Pending)
               => status' = "Flashing"
            /\ (status = "FlashingSuceeded" /\ ~HeldInvalid /\ Pending)
               => status' = "NoSdCard"]_vars
    /\ [][(AttemptEnds /\ last_io' = "none")
            => status' = "FlashingSuceeded"]_vars

\* The Status Cell has gone through the whole cycle, the card passing
\* every validity check on the way.
C5_Witness ==
    /\ cycle = ExpectedCycle
    /\ status = "NoSdCard"
    /\ consumed # None

\* C6: the step that leaves the Flashing handler leaves the Button Latch
\* clear, and while no edge has been published since, the next tick in
\* FlashingSuceeded / FlashingFailed with a valid device keeps the state.
C6_PressDuringFlashDropped ==
    [][/\ AttemptEnds => ~has_changed(button_seen', button_version')
       /\ (/\ OrchStep
           /\ flash_done
           /\ unacked = 0
           /\ ~HeldInvalid)
          => status' = status]_vars

\* An edge was published while copy_func ran, and the handler has ended.
C6_Witness ==
    /\ flash_done
    /\ edge_in_flash
    /\ unacked = 0
    /\ status \in {"FlashingSuceeded", "FlashingFailed"}

\* C7: Flashing is published only when the button monitor has published an
\* edge after the latch was cleared on the NoSdCard -> SdCardFound
\* transition.
C7_StalePressIgnored ==
    [][(status # "Flashing" /\ status' = "Flashing") => edge_since_found]_vars

\* An edge published before discovery was cleared by the SdCardFound
\* transition and has started nothing.
C7_Witness ==
    /\ status = "SdCardFound"
    /\ button_version > 0
    /\ ~edge_since_found
    /\ consumed = None
    /\ ~Pending

\* C8: the Button Latch reports pending exactly when an edge has been
\* published since the last acknowledgment, however many were published,
\* and every reaction of the orchestrator acknowledges at least one edge
\* that no earlier reaction acknowledged.
C8_LatchCoalesces ==
    /\ Pending <=> unacked > 0
    /\ consumed # Some(0)

\* One reaction has acknowledged two edges, and nothing is pending.
C8_Witness ==
    /\ consumed # None
    /\ consumed[1] >= 2
    /\ ~Pending

\* C9: the Flashing handler starts only after NoSdCard was held and
\* SdCardFound published again since the handler last ran, it leaves a
\* state other than Flashing behind, and FlashingFailed is followed only by
\* itself or NoSdCard.
C9_NoAutomaticRetry ==
    [][/\ (status' = "Flashing" /\ pc' = "idle")
            => since_flash' \in {"fresh", "found"}
       /\ flash_done' => status' # "Flashing"
       /\ status = "FlashingFailed"
            => status' \in {"FlashingFailed", "NoSdCard"}]_vars

\* A second attempt is about to start after a failed one.
C9_Witness ==
    /\ status = "Flashing"
    /\ pc = "idle"
    /\ since_flash = "found"

\* The driver's step that takes the `receiver.changed()` branch.
DriverReads == led_changed /\ ~led_changed'

\* C11: once the LED driver has completed a render, led_state is the image
\* under `into` of the last SystemState the driver read from the Status
\* Cell (SolidBoth if it has read none), and the levels of both pins are
\* those the render table gives for led_state and the current flash phase.
C11_LedPatternInvariant ==
    rendered =>
        /\ led_state = IF led_read = None THEN "SolidBoth"
                                          ELSE into(led_read[1])
        /\ red = Render(led_state, flash_state).red
        /\ yellow = Render(led_state, flash_state).yellow

\* The driver shows the pattern of Flashing, which it read last, while the
\* Status Cell has moved on.
C11_Witness ==
    /\ rendered
    /\ led_read = Some("Flashing")
    /\ status = "FlashingSuceeded"
    /\ led_state = "FlashingGreenRed"
    /\ flash_state
    /\ red = "low"
    /\ yellow = "high"

\* C12: if from some point on the Status Cell holds one value s for ever,
\* then from some point on led_state is the image of s for ever (the
\* driver being scheduled whenever a value it has not seen is waiting).
C12_LedEventuallyConsistent ==
    \A s \in SystemState :
        <>[](status = s) => <>[](led_state = into(s))

\* The driver has caught up with the last value published.
C12_Witness ==
    /\ status = "FlashingFailed"
    /\ ~led_changed
    /\ sending = <<>>
    /\ led_read = Some("FlashingFailed")
    /\ led_state = "SolidRed"

\* C13: `into` maps every SystemState to a LedState and no two to the same;
\* a read of a value whose pattern is the one shown leaves the flash phase
\* and both pin levels as they were; a read of a value with another pattern
\* replaces led_state and renders with the flash phase false; any other
\* change of the flash phase is the timer tick's, which leaves led_state.
C13_RenderDeterminismPhaseReset ==
    /\ [](/\ \A a \in SystemState : into(a) \in LedState
          /\ \A a, b \in SystemState : into(a) = into(b) => a = b)
    /\ [][/\ (DriverReads /\ into(status) = led_state)
             => UNCHANGED <<led_state, flash_state, red, yellow>>
          /\ (DriverReads /\ into(status) # led_state)
             => /\ led_state' = into(status)
                /\ flash_state' = FALSE
                /\ red' = Render(led_state', FALSE).red
                /\ yellow' = Render(led_state', FALSE).yellow
          /\ (~DriverReads /\ flash_state' # flash_state)
             => /\ led_last' = "tick"
                /\ UNCHANGED <<status, led_state, led_read, led_changed>>
       ]_vars

\* The driver has just read a republished NoSdCard in the lit half of the
\* flashing-red pattern.
C13_Witness ==
    /\ led_last = "same"
    /\ led_state = "FlashingRed"
    /\ flash_state
    /\ red = "low"
    /\ status = "NoSdCard"

\* C14: the Button Latch is published to exactly once for each pair of
\* consecutive samples (not pressed, pressed) of the button monitor, the
\* sample taken before its loop being the first, and on no other pair: not
\* on (pressed, not pressed), not on equal samples, so not while the button
\* is held and not for a button held since startup.
C14_ButtonEdgeDetection ==
    [][/\ button_version' # button_version
            => /\ button_version' = button_version + 1
               /\ ~last_state
               /\ last_state'
       /\ (~last_state /\ last_state')
            => button_version' = button_version + 1
       /\ (last_state /\ ~button_low /\ last_state' = button_low)
            => button_version' = button_version]_vars

\* The button was pressed, sampled, and is still held: one event.
C14_Witness ==
    /\ button_version = 1
    /\ last_state
    /\ button_low
    /\ unacked = 1

\* The entries the scan is to return: those whose attribute is a number of
\* sectors with sectors * SECTOR_BYTES >= min, the product taken in the
\* integers.
RECURSIVE Qualifying(_, _)
Qualifying(reg, min_size_bytes) ==
    IF reg = <<>> THEN <<>>
    ELSE LET entry == Head(reg)
             rest == Qualifying(Tail(reg), min_size_bytes)
         IN  IF /\ entry.kind = "num"
                /\ SizeBytes_Exact(entry.size) >= min_size_bytes
             THEN <<(<<SysBlock, entry.name>>)>> \o rest
             ELSE rest

\* C15: a call of get_block_devices_with_size(min) returns, and what it
\* returns is, in enumeration order, exactly the entries whose size
\* attribute exists, parses and gives sectors * SECTOR_BYTES >= min, for
\* every sector count of the integer width; the device the orchestrator
\* adopts is the first of them.
C15_DiscoveryFilter ==
    scan_pc # "ready"
        => /\ scan_pc = "returned"
           /\ scan_out = Qualifying(scan_reg, scan_min)
           /\ device_path \in {None, FirstDevice(scan_out)}

\* A step of copy_func's loops: the orchestrator moves inside the arm.
CopyStep == OrchStep /\ pc \in {"write", "verify"}

\* C16: with a re-opened source that delivers source_bytes bytes, every
\* iteration of the write loop that does not leave it adds to read_bytes
\* without passing source_bytes; the loop is left for the verify phase
\* only with read_bytes = bytes written = source_bytes, also when the
\* source ends early; every iteration of the verify loop that does not
\* leave it consumes one of the recorded entries; and the loops are left
\* for FlashingSuceeded or FlashingFailed only.  So both loops end within
\* source_bytes, respectively Len(hashes), iterations.
C16_CopyTerminates ==
    [][/\ (CopyStep /\ pc = "write" /\ pc' = "write"
              /\ src_avail = source_bytes)
            => /\ read_bytes' > read_bytes
               /\ read_bytes' <= source_bytes
       /\ (pc = "write" /\ pc' = "verify")
            => /\ read_bytes = source_bytes
               /\ Len(written) = source_bytes
               /\ bytes_remaining' = source_bytes
       /\ (CopyStep /\ pc = "verify" /\ pc' = "verify")
            => /\ hashes_next' = hashes_next + 1
               /\ hashes_next' <= Len(hashes)
       /\ (CopyStep /\ pc' = "idle")
            => status' \in {"FlashingSuceeded", "FlashingFailed"}]_vars

\* A source of the startup length was delivered in short reads, written
\* whole, and the verify loop has ended.
C16_Witness ==
    /\ flash_done
    /\ src_avail = 0
    /\ Len(written) = source_bytes
    /\ Len(wlens) = source_bytes
    /\ source_bytes >= 2
    /\ rlens # <<>>
    /\ status = "FlashingSuceeded"

\* The chunk the last read of the verify phase returned.
LastChunk == SubSeq(readback', Len(readback) + 1, Len(readback'))

\* C17: the step that ends the verify phase publishes FlashingFailed
\* (a) when the expected byte count is reached with fewer recorded entries
\* consumed than the write phase recorded, (b) when the hash of the chunk
\* read differs from the recorded entry at its position, and (c) when a
\* chunk is read with every recorded entry already consumed.
C17_VerifyCountChecks ==
    [][(CopyStep /\ pc = "verify")
        => /\ (bytes_remaining = 0 /\ hashes_next < Len(hashes))
                => status' = "FlashingFailed"
           /\ (/\ readback' # readback
               /\ hashes_next < Len(hashes)
               /\ hash(LastChunk) # hashes[hashes_next + 1])
                => status' = "FlashingFailed"
           /\ (bytes_remaining > 0 /\ hashes_next >= Len(hashes))
                => status' = "FlashingFailed"]_vars

\* The lengths of the reads that returned bytes.
RECURSIVE NonZero(_)
NonZero(lens) ==
    IF lens = <<>> THEN <<>>
    ELSE IF Head(lens) = 0 THEN NonZero(Tail(lens))
    ELSE <<Head(lens)>> \o NonZero(Tail(lens))

\* C18: when the verify phase ends after a read that returned no bytes,
\* with no I/O error, and its other reads returned the bytes written, in
\* the chunks of the write phase, FlashingSuceeded is published.
C18_ZeroReadTolerated ==
    [][(/\ AttemptEnds
        /\ pc = "verify"
        /\ last_io' \notin EnvErrors
        /\ \E i \in 1..Len(rlens') : rlens'[i] = 0
        /\ NonZero(rlens') = wlens'
        /\ readback' = written')
       => status' = "FlashingSuceeded"]_vars

\* C19: the verify phase starts with the destination handle at offset 0,
\* and every read it requests lies within the first read_bytes bytes.
C19_VerifyReadsWritten ==
    /\ [][(pc = "write" /\ pc' = "verify") => dest_pos' = 0]_vars
    /\ [](pc = "verify"
            => dest_pos + Min(BUFFER_SIZE, bytes_remaining) <= read_bytes)

\* The changes of the Status Cell a tick may make.
TickChanges ==
    {<<"Initializing", "NoSdCard">>,
     <<"NoSdCard", "SdCardFound">>,
     <<"SdCardFound", "NoSdCard">>,
     <<"SdCardFound", "Flashing">>,
     <<"Flashing", "FlashingSuceeded">>,
     <<"Flashing", "FlashingFailed">>,
     <<"FlashingSuceeded", "NoSdCard">>,
     <<"FlashingFailed", "NoSdCard">>}

\* C20: the Status Cell changes only in steps of the orchestrator, and
\* then by Initializing -> NoSdCard, NoSdCard -> SdCardFound, SdCardFound
\* -> NoSdCard or Flashing, Flashing -> FlashingSuceeded or FlashingFailed,
\* FlashingSuceeded / FlashingFailed -> NoSdCard; a tick that ends in the
\* step it started in Flashing, and the step that ends a copy, leave
\* FlashingSuceeded or FlashingFailed; Initializing is never published.
C20_TransitionRelation ==
    [][/\ status' # status
            => /\ OrchStep
               /\ <<status, status'>> \in TickChanges
       /\ (/\ OrchStep
           /\ status = "Flashing"
           /\ pc' \in {"idle", "exited"})
            => status' \in {"FlashingSuceeded", "FlashingFailed"}
       /\ status' = "Initializing" => status = "Initializing"]_vars

====
